---- MODULE Spec2Model ----
(***************************************************************************)
(* Left-to-right arithmetic calculator (LtrCalculator) and its parts:      *)
(* OperatorRegistry, ParenthesesChecker, RegexPatterns,                    *)
(* ExpressionValidator and LeftToRightEvaluator.                           *)
(*                                                                         *)
(* Text is a sequence of characters, each a string.  A float is a rational *)
(* <<n, d>> in lowest terms with d > 0; the two IEEE zeros are <<0, 1>>    *)
(* (0.0) and <<0, -1>> (-0.0).  IEEE rounding is not modelled: an          *)
(* operation on an operand that is no k / 2**m, one whose result leaves    *)
(* the magnitudes below, and a float whose text form is not an exact       *)
(* decimal end with the outcome "Beyond".                                  *)
(***************************************************************************)
EXTENDS Integers, Sequences, FiniteSets, TLC

\* ------------------------------------------------------------------ bounds
\* Operand literals of the generated expressions use the digits 0..MaxDigit.
MaxDigit == 2
\* Largest numerator / denominator a modelled float may have.
MaxNum == 30000
\* Operands of the operator table runs: the left operand ranges over
\* -MaxNegative..MaxWhole, the right one over -MaxNegative..MaxPart.
MaxWhole == 200

MaxPart == 121

MaxNegative == 3

\* Strings handed to the bracket checker alone have at most MaxLen characters.
MaxLen == 4

\* At most MaxSpaces whitespace characters are inserted into an expression.
MaxSpaces == 2

\* Strings matched against the operand pattern alone have at most
\* MaxOperandLen characters.
MaxOperandLen == 5

\* -------------------------------------------------------------- characters
\* the ASCII digits, in order of value
DigitChars == <<"0", "1", "2", "3", "4", "5", "6", "7", "8", "9">>

\* The patterns are str patterns compiled without re.ASCII, so \d is every
\* Unicode decimal digit (category Nd), and float() reads each of them as
\* its value.  A character that a string of this module cannot hold is
\* written as its Python escape.  The decimal digits come in blocks of ten,
\* each in order of value; the first block is the ASCII one.
DigitBlocks ==
    <<DigitChars,
      <<"\\u0660", "\\u0661", "\\u0662", "\\u0663", "\\u0664",
        "\\u0665", "\\u0666", "\\u0667", "\\u0668", "\\u0669">>,
      <<"\\u06f0", "\\u06f1", "\\u06f2", "\\u06f3", "\\u06f4",
        "\\u06f5", "\\u06f6", "\\u06f7", "\\u06f8", "\\u06f9">>,
      <<"\\u07c0", "\\u07c1", "\\u07c2", "\\u07c3", "\\u07c4",
        "\\u07c5", "\\u07c6", "\\u07c7", "\\u07c8", "\\u07c9">>,
      <<"\\u0966", "\\u0967", "\\u0968", "\\u0969", "\\u096a",
        "\\u096b", "\\u096c", "\\u096d", "\\u096e", "\\u096f">>,
      <<"\\u09e6", "\\u09e7", "\\u09e8", "\\u09e9", "\\u09ea",
        "\\u09eb", "\\u09ec", "\\u09ed", "\\u09ee", "\\u09ef">>,
      <<"\\u0a66", "\\u0a67", "\\u0a68", "\\u0a69", "\\u0a6a",
        "\\u0a6b", "\\u0a6c", "\\u0a6d", "\\u0a6e", "\\u0a6f">>,
      <<"\\u0ae6", "\\u0ae7", "\\u0ae8", "\\u0ae9", "\\u0aea",
        "\\u0aeb", "\\u0aec", "\\u0aed", "\\u0aee", "\\u0aef">>,
      <<"\\u0b66", "\\u0b67", "\\u0b68", "\\u0b69", "\\u0b6a",
        "\\u0b6b", "\\u0b6c", "\\u0b6d", "\\u0b6e", "\\u0b6f">>,
      <<"\\u0be6", "\\u0be7", "\\u0be8", "\\u0be9", "\\u0bea",
        "\\u0beb", "\\u0bec", "\\u0bed", "\\u0bee", "\\u0bef">>,
      <<"\\u0c66", "\\u0c67", "\\u0c68", "\\u0c69", "\\u0c6a",
        "\\u0c6b", "\\u0c6c", "\\u0c6d", "\\u0c6e", "\\u0c6f">>,
      <<"\\u0ce6", "\\u0ce7", "\\u0ce8", "\\u0ce9", "\\u0cea",
        "\\u0ceb", "\\u0cec", "\\u0ced", "\\u0cee", "\\u0cef">>,
      <<"\\u0d66", "\\u0d67", "\\u0d68", "\\u0d69", "\\u0d6a",
        "\\u0d6b", "\\u0d6c", "\\u0d6d", "\\u0d6e", "\\u0d6f">>,
      <<"\\u0de6", "\\u0de7", "\\u0de8", "\\u0de9", "\\u0dea",
        "\\u0deb", "\\u0dec", "\\u0ded", "\\u0dee", "\\u0def">>,
      <<"\\u0e50", "\\u0e51", "\\u0e52", "\\u0e53", "\\u0e54",
        "\\u0e55", "\\u0e56", "\\u0e57", "\\u0e58", "\\u0e59">>,
      <<"\\u0ed0", "\\u0ed1", "\\u0ed2", "\\u0ed3", "\\u0ed4",
        "\\u0ed5", "\\u0ed6", "\\u0ed7", "\\u0ed8", "\\u0ed9">>,
      <<"\\u0f20", "\\u0f21", "\\u0f22", "\\u0f23", "\\u0f24",
        "\\u0f25", "\\u0f26", "\\u0f27", "\\u0f28", "\\u0f29">>,
      <<"\\u1040", "\\u1041", "\\u1042", "\\u1043", "\\u1044",
        "\\u1045", "\\u1046", "\\u1047", "\\u1048", "\\u1049">>,
      <<"\\u1090", "\\u1091", "\\u1092", "\\u1093", "\\u1094",
        "\\u1095", "\\u1096", "\\u1097", "\\u1098", "\\u1099">>,
      <<"\\u17e0", "\\u17e1", "\\u17e2", "\\u17e3", "\\u17e4",
        "\\u17e5", "\\u17e6", "\\u17e7", "\\u17e8", "\\u17e9">>,
      <<"\\u1810", "\\u1811", "\\u1812", "\\u1813", "\\u1814",
        "\\u1815", "\\u1816", "\\u1817", "\\u1818", "\\u1819">>,
      <<"\\u1946", "\\u1947", "\\u1948", "\\u1949", "\\u194a",
        "\\u194b", "\\u194c", "\\u194d", "\\u194e", "\\u194f">>,
      <<"\\u19d0", "\\u19d1", "\\u19d2", "\\u19d3", "\\u19d4",
        "\\u19d5", "\\u19d6", "\\u19d7", "\\u19d8", "\\u19d9">>,
      <<"\\u1a80", "\\u1a81", "\\u1a82", "\\u1a83", "\\u1a84",
        "\\u1a85", "\\u1a86", "\\u1a87", "\\u1a88", "\\u1a89">>,
      <<"\\u1a90", "\\u1a91", "\\u1a92", "\\u1a93", "\\u1a94",
        "\\u1a95", "\\u1a96", "\\u1a97", "\\u1a98", "\\u1a99">>,
      <<"\\u1b50", "\\u1b51", "\\u1b52", "\\u1b53", "\\u1b54",
        "\\u1b55", "\\u1b56", "\\u1b57", "\\u1b58", "\\u1b59">>,
      <<"\\u1bb0", "\\u1bb1", "\\u1bb2", "\\u1bb3", "\\u1bb4",
        "\\u1bb5", "\\u1bb6", "\\u1bb7", "\\u1bb8", "\\u1bb9">>,
      <<"\\u1c40", "\\u1c41", "\\u1c42", "\\u1c43", "\\u1c44",
        "\\u1c45", "\\u1c46", "\\u1c47", "\\u1c48", "\\u1c49">>,
      <<"\\u1c50", "\\u1c51", "\\u1c52", "\\u1c53", "\\u1c54",
        "\\u1c55", "\\u1c56", "\\u1c57", "\\u1c58", "\\u1c59">>,
      <<"\\ua620", "\\ua621", "\\ua622", "\\ua623", "\\ua624",
        "\\ua625", "\\ua626", "\\ua627", "\\ua628", "\\ua629">>,
      <<"\\ua8d0", "\\ua8d1", "\\ua8d2", "\\ua8d3", "\\ua8d4",
        "\\ua8d5", "\\ua8d6", "\\ua8d7", "\\ua8d8", "\\ua8d9">>,
      <<"\\ua900", "\\ua901", "\\ua902", "\\ua903", "\\ua904",
        "\\ua905", "\\ua906", "\\ua907", "\\ua908", "\\ua909">>,
      <<"\\ua9d0", "\\ua9d1", "\\ua9d2", "\\ua9d3", "\\ua9d4",
        "\\ua9d5", "\\ua9d6", "\\ua9d7", "\\ua9d8", "\\ua9d9">>,
      <<"\\ua9f0", "\\ua9f1", "\\ua9f2", "\\ua9f3", "\\ua9f4",
        "\\ua9f5", "\\ua9f6", "\\ua9f7", "\\ua9f8", "\\ua9f9">>,
      <<"\\uaa50", "\\uaa51", "\\uaa52", "\\uaa53", "\\uaa54",
        "\\uaa55", "\\uaa56", "\\uaa57", "\\uaa58", "\\uaa59">>,
      <<"\\uabf0", "\\uabf1", "\\uabf2", "\\uabf3", "\\uabf4",
        "\\uabf5", "\\uabf6", "\\uabf7", "\\uabf8", "\\uabf9">>,
      <<"\\uff10", "\\uff11", "\\uff12", "\\uff13", "\\uff14",
        "\\uff15", "\\uff16", "\\uff17", "\\uff18", "\\uff19">>,
      <<"\\U000104a0", "\\U000104a1", "\\U000104a2", "\\U000104a3", "\\U000104a4",
        "\\U000104a5", "\\U000104a6", "\\U000104a7", "\\U000104a8", "\\U000104a9">>,
      <<"\\U00010d30", "\\U00010d31", "\\U00010d32", "\\U00010d33", "\\U00010d34",
        "\\U00010d35", "\\U00010d36", "\\U00010d37", "\\U00010d38", "\\U00010d39">>,
      <<"\\U00011066", "\\U00011067", "\\U00011068", "\\U00011069", "\\U0001106a",
        "\\U0001106b", "\\U0001106c", "\\U0001106d", "\\U0001106e", "\\U0001106f">>,
      <<"\\U000110f0", "\\U000110f1", "\\U000110f2", "\\U000110f3", "\\U000110f4",
        "\\U000110f5", "\\U000110f6", "\\U000110f7", "\\U000110f8", "\\U000110f9">>,
      <<"\\U00011136", "\\U00011137", "\\U00011138", "\\U00011139", "\\U0001113a",
        "\\U0001113b", "\\U0001113c", "\\U0001113d", "\\U0001113e", "\\U0001113f">>,
      <<"\\U000111d0", "\\U000111d1", "\\U000111d2", "\\U000111d3", "\\U000111d4",
        "\\U000111d5", "\\U000111d6", "\\U000111d7", "\\U000111d8", "\\U000111d9">>,
      <<"\\U000112f0", "\\U000112f1", "\\U000112f2", "\\U000112f3", "\\U000112f4",
        "\\U000112f5", "\\U000112f6", "\\U000112f7", "\\U000112f8", "\\U000112f9">>,
      <<"\\U00011450", "\\U00011451", "\\U00011452", "\\U00011453", "\\U00011454",
        "\\U00011455", "\\U00011456", "\\U00011457", "\\U00011458", "\\U00011459">>,
      <<"\\U000114d0", "\\U000114d1", "\\U000114d2", "\\U000114d3", "\\U000114d4",
        "\\U000114d5", "\\U000114d6", "\\U000114d7", "\\U000114d8", "\\U000114d9">>,
      <<"\\U00011650", "\\U00011651", "\\U00011652", "\\U00011653", "\\U00011654",
        "\\U00011655", "\\U00011656", "\\U00011657", "\\U00011658", "\\U00011659">>,
      <<"\\U000116c0", "\\U000116c1", "\\U000116c2", "\\U000116c3", "\\U000116c4",
        "\\U000116c5", "\\U000116c6", "\\U000116c7", "\\U000116c8", "\\U000116c9">>,
      <<"\\U00011730", "\\U00011731", "\\U00011732", "\\U00011733", "\\U00011734",
        "\\U00011735", "\\U00011736", "\\U00011737", "\\U00011738", "\\U00011739">>,
      <<"\\U000118e0", "\\U000118e1", "\\U000118e2", "\\U000118e3", "\\U000118e4",
        "\\U000118e5", "\\U000118e6", "\\U000118e7", "\\U000118e8", "\\U000118e9">>,
      <<"\\U00011950", "\\U00011951", "\\U00011952", "\\U00011953", "\\U00011954",
        "\\U00011955", "\\U00011956", "\\U00011957", "\\U00011958", "\\U00011959">>,
      <<"\\U00011c50", "\\U00011c51", "\\U00011c52", "\\U00011c53", "\\U00011c54",
        "\\U00011c55", "\\U00011c56", "\\U00011c57", "\\U00011c58", "\\U00011c59">>,
      <<"\\U00011d50", "\\U00011d51", "\\U00011d52", "\\U00011d53", "\\U00011d54",
        "\\U00011d55", "\\U00011d56", "\\U00011d57", "\\U00011d58", "\\U00011d59">>,
      <<"\\U00011da0", "\\U00011da1", "\\U00011da2", "\\U00011da3", "\\U00011da4",
        "\\U00011da5", "\\U00011da6", "\\U00011da7", "\\U00011da8", "\\U00011da9">>,
      <<"\\U00016a60", "\\U00016a61", "\\U00016a62", "\\U00016a63", "\\U00016a64",
        "\\U00016a65", "\\U00016a66", "\\U00016a67", "\\U00016a68", "\\U00016a69">>,
      <<"\\U00016ac0", "\\U00016ac1", "\\U00016ac2", "\\U00016ac3", "\\U00016ac4",
        "\\U00016ac5", "\\U00016ac6", "\\U00016ac7", "\\U00016ac8", "\\U00016ac9">>,
      <<"\\U00016b50", "\\U00016b51", "\\U00016b52", "\\U00016b53", "\\U00016b54",
        "\\U00016b55", "\\U00016b56", "\\U00016b57", "\\U00016b58", "\\U00016b59">>,
      <<"\\U0001d7ce", "\\U0001d7cf", "\\U0001d7d0", "\\U0001d7d1", "\\U0001d7d2",
        "\\U0001d7d3", "\\U0001d7d4", "\\U0001d7d5", "\\U0001d7d6", "\\U0001d7d7">>,
      <<"\\U0001d7d8", "\\U0001d7d9", "\\U0001d7da", "\\U0001d7db", "\\U0001d7dc",
        "\\U0001d7dd", "\\U0001d7de", "\\U0001d7df", "\\U0001d7e0", "\\U0001d7e1">>,
      <<"\\U0001d7e2", "\\U0001d7e3", "\\U0001d7e4", "\\U0001d7e5", "\\U0001d7e6",
        "\\U0001d7e7", "\\U0001d7e8", "\\U0001d7e9", "\\U0001d7ea", "\\U0001d7eb">>,
      <<"\\U0001d7ec", "\\U0001d7ed", "\\U0001d7ee", "\\U0001d7ef", "\\U0001d7f0",
        "\\U0001d7f1", "\\U0001d7f2", "\\U0001d7f3", "\\U0001d7f4", "\\U0001d7f5">>,
      <<"\\U0001d7f6", "\\U0001d7f7", "\\U0001d7f8", "\\U0001d7f9", "\\U0001d7fa",
        "\\U0001d7fb", "\\U0001d7fc", "\\U0001d7fd", "\\U0001d7fe", "\\U0001d7ff">>,
      <<"\\U0001e140", "\\U0001e141", "\\U0001e142", "\\U0001e143", "\\U0001e144",
        "\\U0001e145", "\\U0001e146", "\\U0001e147", "\\U0001e148", "\\U0001e149">>,
      <<"\\U0001e2f0", "\\U0001e2f1", "\\U0001e2f2", "\\U0001e2f3", "\\U0001e2f4",
        "\\U0001e2f5", "\\U0001e2f6", "\\U0001e2f7", "\\U0001e2f8", "\\U0001e2f9">>,
      <<"\\U0001e950", "\\U0001e951", "\\U0001e952", "\\U0001e953", "\\U0001e954",
        "\\U0001e955", "\\U0001e956", "\\U0001e957", "\\U0001e958", "\\U0001e959">>,
      <<"\\U0001fbf0", "\\U0001fbf1", "\\U0001fbf2", "\\U0001fbf3", "\\U0001fbf4",
        "\\U0001fbf5", "\\U0001fbf6", "\\U0001fbf7", "\\U0001fbf8", "\\U0001fbf9">>>>

Digits == {DigitBlocks[b][k] : b \in 1..Len(DigitBlocks), k \in 1..10}

IsDigit(c) == c \in Digits

\* the characters of \s up to U+00FF and the Unicode spaces beyond
Spaces ==
    {" ", "\t", "\n", "\r", "\f", "\\x0b", "\\x1c", "\\x1d", "\\x1e", "\\x1f",
     "\\x85", "\\xa0", "\\u1680", "\\u2000", "\\u2001", "\\u2002", "\\u2003",
     "\\u2004", "\\u2005", "\\u2006", "\\u2007", "\\u2008", "\\u2009",
     "\\u200a", "\\u2028", "\\u2029", "\\u202f", "\\u205f", "\\u3000"}

\* \s of the patterns
IsSpace(c) == c \in Spaces

\* the whitespace float() ignores around a number: the separators U+001C ..
\* U+001F are not part of it
FloatSpaces == Spaces \ {"\\x1c", "\\x1d", "\\x1e", "\\x1f"}

IsFloatSpace(c) == c \in FloatSpaces

\* the value of every decimal digit
DigitValues ==
    [c \in Digits |->
        CHOOSE k \in 0..9 : \E b \in 1..Len(DigitBlocks) : DigitBlocks[b][k + 1] = c]

DigitVal(c) == DigitValues[c]

\* s[i], or "" outside the text
At(s, i) == IF i \in 1..Len(s) THEN s[i] ELSE ""

\* s[i:j] of Python, on 1-based positions: the characters i .. j-1
Slice(s, i, j) == IF j <= i THEN <<>> ELSE SubSeq(s, i, j - 1)

Range(f) == {f[x] : x \in DOMAIN f}

Abs(x) == IF x < 0 THEN -x ELSE x

\* ------------------------------------------------------------------ floats
RECURSIVE GCD(_, _)
GCD(a, b) == IF b = 0 THEN a ELSE GCD(b, a % b)

PosZero == <<0, 1>>

NegZero == <<0, -1>>

IsZero(v) == v[1] = 0

IsNeg(v) == v[1] < 0 \/ (v[1] = 0 /\ v[2] < 0)

\* lowest terms; neg picks the zero when the quotient is zero
Norm(n, d, neg) ==
    IF n = 0 THEN (IF neg THEN NegZero ELSE PosZero)
    ELSE LET g == GCD(Abs(n), Abs(d))
             s == IF d < 0 THEN -1 ELSE 1
         IN  <<(s * n) \div g, (s * d) \div g>>

FromInt(k) == <<k, 1>>

Den(v) == Abs(v[2])

InRange(v) == Abs(v[1]) <= MaxNum /\ Den(v) <= MaxNum

\* numeric equality of floats (0.0 == -0.0)
ValEq(a, b) == a[1] = b[1] /\ Den(a) = Den(b)

Ok(v) == IF InRange(v) THEN [kind |-> "ok", val |-> v]
         ELSE [kind |-> "Beyond", val |-> PosZero]

Fail(k) == [kind |-> k, val |-> PosZero]

Neg(v) == IF IsZero(v) THEN (IF IsNeg(v) THEN PosZero ELSE NegZero)
          ELSE <<-v[1], v[2]>>

IsPowerOfTwo(d) == \E k \in 0..30 : 2 ^ k = d

\* A float k / 2**m within the magnitudes above is held as it is.  Any other
\* rational stands for the float nearest to it (what float() gives on ".1",
\* what 1.0 / 3.0 gives); arithmetic on such a float rounds again and is not
\* modelled.
Exact(v) == IsPowerOfTwo(Den(v))

\* the arithmetic of the rationals
RatAdd(a, b) ==
    Norm(a[1] * Den(b) + b[1] * Den(a), Den(a) * Den(b), IsNeg(a) /\ IsNeg(b))

RatMul(a, b) == Norm(a[1] * b[1], Den(a) * Den(b), IsNeg(a) # IsNeg(b))

\* b nonzero
RatDiv(a, b) == Norm(a[1] * Den(b), Den(a) * b[1], IsNeg(a) # IsNeg(b))

\* Python's x % y on integers, y nonzero: the result has the sign of y
IntMod(x, y) == IF y > 0 THEN x % y ELSE -((-x) % (-y))

\* b nonzero: a zero result takes the sign of b
RatMod(a, b) ==
    Norm(IntMod(a[1] * Den(b), b[1] * Den(a)), Den(a) * Den(b), IsNeg(b))

\* the correctly rounded result of an operation on the floats a and b whose
\* exact value is v
Rounded(a, b, v) ==
    IF Exact(a) /\ Exact(b) THEN Ok(v) ELSE Fail("Beyond")

\* operator.add
Add(a, b) == Rounded(a, b, RatAdd(a, b))

\* operator.sub
Sub(a, b) == Rounded(a, b, RatAdd(a, Neg(b)))

\* operator.mul
Mul(a, b) == Rounded(a, b, RatMul(a, b))

\* operator.truediv
Div(a, b) ==
    IF IsZero(b) THEN Fail("ZeroDivisionError") ELSE Rounded(a, b, RatDiv(a, b))

\* operator.mod on floats
Mod(a, b) ==
    IF IsZero(b) THEN Fail("ZeroDivisionError") ELSE Rounded(a, b, RatMod(a, b))

\* acc * k ** e for e >= 0, or -1 once the magnitude passes MaxNum
RECURSIVE PowAcc(_, _, _)
PowAcc(k, e, acc) ==
    IF e = 0 THEN acc
    ELSE IF acc * k > MaxNum THEN -1
    ELSE PowAcc(k, e - 1, acc * k)

\* k ** e on naturals (-1 once past MaxNum)
PowNat(k, e) ==
    IF e = 0 \/ k = 1 THEN 1 ELSE IF k = 0 THEN 0 ELSE PowAcc(k, e, 1)

\* the result of pow whose exact value is v: pow returns a value that is a
\* float as it is; any other is rounded by the C library, not always to the
\* nearest float, and is not modelled
PowRounded(v) == IF Exact(v) THEN Ok(v) ELSE Fail("Beyond")

\* base ** e for a nonzero base and an integer b, given |n| ** e and d ** e
\* of the base n / d (-1 when past MaxNum)
PowInt(a, b, pn, pd) ==
    IF pn = -1 \/ pd = -1 THEN Fail("Beyond")
    ELSE IF IsNeg(b)
    THEN PowRounded(Norm(IF IsNeg(a) /\ b[1] % 2 = 1 THEN -pd ELSE pd, pn, FALSE))
    ELSE PowRounded(Norm(IF IsNeg(a) /\ b[1] % 2 = 1 THEN -pn ELSE pn, pd, FALSE))

\* the negative bases whose square root the model holds
ComplexBases == {FromInt(-n) : n \in 1..4}

\* the complex values the model holds: the square root of a base of
\* ComplexBases, and 0j (the square root of 0), each as the base it is the
\* root of.  Of any other complex value it holds only that it is complex
\* (kind "ComplexBeyond").
ZeroJ == [kind |-> "Complex", val |-> PosZero]

ComplexBeyond == Fail("ComplexBeyond")

\* str(value) of the complex value v ** 0.5: for v in ComplexBases the real
\* and the imaginary part in the shortest digits that read back, in
\* parentheses; for 0j, whose real part is +0.0, the imaginary part alone
ComplexStr(v) ==
    CASE v[1] = 0 -> <<"0", "j">>
      [] v[1] = -1 ->
            <<"(", "6", ".", "1", "2", "3", "2", "3", "3", "9", "9",
            "5", "7", "3", "6", "7", "6", "6", "e", "-", "1", "7",
            "+", "1", "j", ")">>
      [] v[1] = -2 ->
            <<"(", "8", ".", "6", "5", "9", "5", "6", "0", "5", "6",
            "2", "3", "5", "4", "9", "3", "4", "e", "-", "1", "7",
            "+", "1", ".", "4", "1", "4", "2", "1", "3", "5", "6",
            "2", "3", "7", "3", "0", "9", "5", "1", "j", ")">>
      [] v[1] = -3 ->
            <<"(", "1", ".", "0", "6", "0", "5", "7", "5", "2", "3",
            "8", "7", "2", "4", "9", "0", "6", "8", "e", "-", "1",
            "6", "+", "1", ".", "7", "3", "2", "0", "5", "0", "8",
            "0", "7", "5", "6", "8", "8", "7", "7", "2", "j", ")">>
      [] v[1] = -4 ->
            <<"(", "1", ".", "2", "2", "4", "6", "4", "6", "7", "9",
            "9", "1", "4", "7", "3", "5", "3", "2", "e", "-", "1",
            "6", "+", "2", "j", ")">>

\* a negative base a with a fractional exponent b: the result is the complex
\* number a ** b, unless it overflows (OverflowError), which an exponent
\* between -1 and 1 excludes for the bases of the model.
ComplexPow(a, b) ==
    IF b = <<1, 2>> /\ a \in ComplexBases
    THEN [kind |-> "Complex", val |-> a]
    ELSE IF Abs(b[1]) < Den(b) THEN ComplexBeyond
    ELSE Fail("Beyond")

\* operator.pow on floats.  A positive base but 1 with a fractional exponent
\* gives an irrational number: "Beyond".
Pow(a, b) ==
    IF IsZero(b) \/ (a[1] = 1 /\ a[2] = 1) THEN Ok(FromInt(1))
    ELSE IF IsZero(a)
    THEN IF IsNeg(b) THEN Fail("ZeroDivisionError")
         ELSE Ok(IF IsNeg(a) /\ Den(b) = 1 /\ b[1] % 2 = 1
                 THEN NegZero ELSE PosZero)
    ELSE IF Den(b) # 1
    THEN (IF IsNeg(a) THEN ComplexPow(a, b) ELSE Fail("Beyond"))
    ELSE IF ~Exact(a) THEN Fail("Beyond")
    ELSE PowInt(a, b, PowNat(Abs(a[1]), Abs(b[1])), PowNat(Den(a), Abs(b[1])))

\* a percentage that divides by its right operand
PercentOfRight(whole, part) ==
    LET scaled == Mul(whole, FromInt(100))
    IN  IF IsZero(part) THEN Fail("ZeroDivisionError")
        ELSE IF scaled.kind # "ok" THEN scaled
        ELSE Div(scaled.val, part)

\* the custom percentage operator: lambda whole, part: part * 100 / whole
Percent(whole, part) ==
    LET scaled == Mul(part, FromInt(100))
    IN  IF IsZero(whole) THEN Fail("ZeroDivisionError")
        ELSE IF scaled.kind # "ok" THEN scaled
        ELSE Div(scaled.val, whole)

\* The callables on a complex left operand z (what an earlier operation of
\* the same fold returned) and a float right operand x, which Python takes
\* as the complex number x+0j.
\* z times x for the two factors that lead from one held root to another:
\* twice the root of -1 is the root of -4, half the root of -4 the root of -1
Scaled(z, x) ==
    IF x = <<2, 1>> /\ z.val = FromInt(-1)
    THEN [kind |-> "Complex", val |-> FromInt(-4)]
    ELSE IF x = <<1, 2>> /\ z.val = FromInt(-4)
    THEN [kind |-> "Complex", val |-> FromInt(-1)]
    ELSE ComplexBeyond

\* operator.add and operator.sub: z +/- 0.0 is z
ComplexAdd(z, x) == IF z.kind = "Complex" /\ IsZero(x) THEN z ELSE ComplexBeyond

\* operator.mul: a product with +0.0, or of 0j and a number that is not
\* negative, is 0j; a negative factor turns the sign of a zero part
ComplexMul(z, x) ==
    IF z.kind # "Complex" \/ IsNeg(x) THEN ComplexBeyond
    ELSE IF IsZero(x) \/ IsZero(z.val) THEN ZeroJ
    ELSE IF x = <<1, 1>> THEN z
    ELSE Scaled(z, x)

\* operator.truediv: "complex division by zero" on either zero
ComplexDiv(z, x) ==
    IF IsZero(x) THEN Fail("ZeroDivisionError")
    ELSE IF z.kind # "Complex" \/ IsNeg(x) THEN ComplexBeyond
    ELSE IF x = <<1, 1>> THEN z
    ELSE IF IsZero(z.val) THEN ZeroJ
    ELSE Scaled(z, <<x[2], x[1]>>)

\* operator.pow: z ** 0 is 1+0j, z ** 1 is z, 0j to a positive power is 0j
\* and to a negative one ZeroDivisionError; a root to a power between -1
\* and 1 is some complex number, to any other power it may overflow
ComplexPower(z, x) ==
    IF z.kind # "Complex" THEN Fail("Beyond")
    ELSE IF IsZero(x) THEN ComplexBeyond
    ELSE IF x = <<1, 1>> THEN z
    ELSE IF IsZero(z.val)
    THEN (IF IsNeg(x) THEN Fail("ZeroDivisionError") ELSE ZeroJ)
    ELSE IF Abs(x[1]) < Den(x) THEN ComplexBeyond
    ELSE Fail("Beyond")

\* lambda whole, part: part * 100 / whole on a complex whole: a zero part
\* of a root is 0j
ComplexPercent(z, x) ==
    IF z.kind # "Complex" THEN Fail("Beyond")
    ELSE IF IsZero(z.val) THEN Fail("ZeroDivisionError")
    ELSE IF IsZero(x) THEN ZeroJ
    ELSE ComplexBeyond

\* ------------------------------------------------------ OperatorRegistry
Str1(a) == <<a>>

Str2(a, b) == <<a, b>>

\* the keys of self._operators, in insertion order
OperatorKeys ==
    << Str1("+"), Str1("-"), Str1("*"), Str1("/"), Str2("*", "*"),
       Str1("%"), Str2("%", "%") >>

Registered == Range(OperatorKeys)

MaxKeyLen == CHOOSE m \in {Len(k) : k \in Registered} :
                 \A k \in Registered : Len(k) <= m

\* the keys left in insertion order (unsorted)
InsertionOrder(keys, n) == keys

\* sorted(keys, key=len, reverse=True): stable, longest first
RECURSIVE SortedByLenDesc(_, _)
SortedByLenDesc(keys, n) ==
    IF n = 0 THEN <<>>
    ELSE SelectSeq(keys, LAMBDA k : Len(k) = n) \o SortedByLenDesc(keys, n - 1)

symbols == SortedByLenDesc(OperatorKeys, MaxKeyLen)

\* OperatorRegistry.get: is the symbol registered
get(symbol) == symbol \in Registered

\* the callable bound to a registered symbol, applied to (left, right)
Apply(symbol, left, right) ==
    CASE symbol = Str1("+") -> Add(left, right)
      [] symbol = Str1("-") -> Sub(left, right)
      [] symbol = Str1("*") -> Mul(left, right)
      [] symbol = Str1("/") -> Div(left, right)
      [] symbol = Str2("*", "*") -> Pow(left, right)
      [] symbol = Str1("%") -> Mod(left, right)
      [] symbol = Str2("%", "%") -> Percent(left, right)

\* OperatorRegistry.compute
compute(left, right, symbol) ==
    IF ~get(symbol) THEN Fail("UnknownOperator")
    ELSE Apply(symbol, left, right)

\* the callable bound to a registered symbol, applied to a complex left
ApplyComplex(symbol, z, right) ==
    CASE symbol = Str1("+") -> ComplexAdd(z, right)
      [] symbol = Str1("-") -> ComplexAdd(z, right)
      [] symbol = Str1("*") -> ComplexMul(z, right)
      [] symbol = Str1("/") -> ComplexDiv(z, right)
      [] symbol = Str2("*", "*") -> ComplexPower(z, right)
      \* operator.mod: unsupported operand types 'complex' and 'float'
      [] symbol = Str1("%") -> Fail("TypeError")
      [] symbol = Str2("%", "%") -> ComplexPercent(z, right)

\* OperatorRegistry.compute when `left` is the complex result of the
\* operation before
computeComplex(z, right, symbol) ==
    IF ~get(symbol) THEN Fail("UnknownOperator")
    ELSE ApplyComplex(symbol, z, right)

\* ---------------------------------------------------- ParenthesesChecker
\* PAIRS, the default opener -> closer mapping
PAIRS == [c \in {"(", "[", "{"} |->
             IF c = "(" THEN ")" ELSE IF c = "[" THEN "]" ELSE "}"]

RoundOnly == [c \in {"("} |-> ")"]

NoPairs == [c \in {} |-> ""]

\* an argument for `pairs`: None (not given) or a dict
NonePairs == [given |-> FALSE, map |-> NoPairs]

DictPairs(m) == [given |-> TRUE, map |-> m]

\* pairs = pairs or PAIRS : None and the empty dict are both falsy
EffectivePairs(pairs) ==
    IF ~pairs.given \/ DOMAIN pairs.map = {} THEN PAIRS ELSE pairs.map

\* the scan of check from character i with the given stack of openers
RECURSIVE ScanFrom(_, _, _, _)
ScanFrom(expression, pairs, i, stack) ==
    IF i > Len(expression)
    THEN (IF stack # <<>> THEN "PairingError" ELSE "ok")
    ELSE LET ch == expression[i]
         IN  IF ch \in DOMAIN pairs
             THEN ScanFrom(expression, pairs, i + 1, Append(stack, ch))
             ELSE IF ch \in Range(pairs)
             THEN IF stack = <<>> THEN "PairingError"
                  ELSE IF pairs[stack[Len(stack)]] # ch THEN "PairingError"
                  ELSE ScanFrom(expression, pairs, i + 1,
                                SubSeq(stack, 1, Len(stack) - 1))
             ELSE ScanFrom(expression, pairs, i + 1, stack)

\* ParenthesesChecker.check
check(expression, pairs) ==
    ScanFrom(expression, EffectivePairs(pairs), 1, <<>>)

\* ----------------------------------------------------------- RegexPatterns
\* first position at or after i that holds no character of the class
RECURSIVE SkipSpaces(_, _)
SkipSpaces(s, i) == IF IsSpace(At(s, i)) THEN SkipSpaces(s, i + 1) ELSE i

RECURSIVE SkipDigits(_, _)
SkipDigits(s, i) == IF IsDigit(At(s, i)) THEN SkipDigits(s, i + 1) ELSE i

RECURSIVE SkipChar(_, _, _)
SkipChar(s, i, c) == IF At(s, i) = c THEN SkipChar(s, i + 1, c) ELSE i

\* [+-]?
SignEnd(s, i) == IF At(s, i) \in {"+", "-"} THEN i + 1 ELSE i

\* (\d+(\.\d*)?|\.\d+) at i: the position after it, 0 when it does not match
NumberBodyEnd(s, i) ==
    IF IsDigit(At(s, i))
    THEN LET j == SkipDigits(s, i)
         IN  IF At(s, j) = "." THEN SkipDigits(s, j + 1) ELSE j
    ELSE IF At(s, i) = "." /\ IsDigit(At(s, i + 1))
    THEN SkipDigits(s, i + 1)
    ELSE 0

\* ([eE][+-]?\d+)? at i: the position after it (i when the group is skipped)
ExponentEnd(s, i) ==
    IF At(s, i) \in {"e", "E"} /\ IsDigit(At(s, SignEnd(s, i + 1)))
    THEN SkipDigits(s, SignEnd(s, i + 1))
    ELSE i

\* RegexPatterns.operand() matched at i:
\*   \s*\(*\s*[+-]?\s*(\d+(\.\d*)?|\.\d+)([eE][+-]?\d+)?\s*\)*\s*
\* the position after the match, 0 when there is none.  Every repetition is
\* followed by something that cannot start with what it repeats, so the
\* longest repetition is the only one a full match can use.
OperandEnd(s, i) ==
    LET open == SkipSpaces(s, SkipChar(s, SkipSpaces(s, i), "("))
        body == NumberBodyEnd(s, SkipSpaces(s, SignEnd(s, open)))
    IN  IF body = 0 THEN 0
        ELSE SkipSpaces(s, SkipChar(s, SkipSpaces(s, ExponentEnd(s, body)), ")"))

HasPrefixAt(s, i, sym) ==
    /\ i + Len(sym) - 1 <= Len(s)
    /\ \A k \in 1..Len(sym) : s[i + k - 1] = sym[k]

\* RegexPatterns.operator(operators) matched at i: the positions where a
\* match can end.  The alternation is built from symbols(); under a full
\* match every alternative is tried.
OperatorEnds(s, i) ==
    {i + Len(symbols[k]) : k \in {x \in 1..Len(symbols) : HasPrefixAt(s, i, symbols[x])}}

\* re.fullmatch(operator pattern, s)
OperatorFullMatch(s) == (Len(s) + 1) \in OperatorEnds(s, 1)

\* re.fullmatch(operand pattern, s)
OperandFullMatch(s) == OperandEnd(s, 1) = Len(s) + 1

\* ({operator}{operand})* from position i up to the end of the text
RECURSIVE TailMatch(_, _)
TailMatch(s, i) ==
    \/ i = Len(s) + 1
    \/ \E j \in OperatorEnds(s, i) :
          LET e == OperandEnd(s, j) IN e # 0 /\ TailMatch(s, e)

\* re.fullmatch(RegexPatterns.expression(operators), s)
ExpressionFullMatch(s) ==
    LET e == OperandEnd(s, 1) IN e # 0 /\ TailMatch(s, e)

\* ----------------------------------------------------- ExpressionValidator
\* ExpressionValidator.validate
validate(expression) ==
    IF ExpressionFullMatch(expression) THEN "ok" ELSE "SyntaxError"

\* ExpressionValidator.check_arithmetic_expr
check_arithmetic_expr(expression) ==
    IF check(expression, DictPairs(RoundOnly)) # "ok" THEN "PairingError"
    ELSE validate(expression)

\* ------------------------------------------------------------ float(text)
\* the text without the whitespace float() ignores at its two ends
Strip(s) ==
    LET a == CHOOSE j \in 1..(Len(s) + 1) :
                 /\ \A k \in 1..(j - 1) : IsFloatSpace(s[k])
                 /\ (j = Len(s) + 1 \/ ~IsFloatSpace(s[j]))
        last == CHOOSE j \in 0..Len(s) :
                    /\ \A k \in (j + 1)..Len(s) : IsFloatSpace(s[k])
                    /\ (j = 0 \/ ~IsFloatSpace(s[j]))
    IN  Slice(s, a, last + 1)

\* digit separators: float() takes a "_" that stands between two digits
SeparatorsOk(s) ==
    \A i \in 1..Len(s) :
        s[i] = "_" => IsDigit(At(s, i - 1)) /\ IsDigit(At(s, i + 1))

WithoutSeparators(s) == SelectSeq(s, LAMBDA c : c # "_")

Lower(c) ==
    CASE c = "I" -> "i" [] c = "N" -> "n" [] c = "F" -> "f"
      [] c = "T" -> "t" [] c = "Y" -> "y" [] c = "A" -> "a"
      [] OTHER -> c

\* "inf", "infinity" or "nan" in any case, with an optional sign
IsInfOrNan(s) ==
    LET body == Slice(s, SignEnd(s, 1), Len(s) + 1)
    IN  [i \in 1..Len(body) |-> Lower(body[i])]
            \in { <<"i", "n", "f">>, <<"n", "a", "n">>,
                  <<"i", "n", "f", "i", "n", "i", "t", "y">> }

\* the integer written by the digits s[i .. j-1], -1 once it passes MaxNum
RECURSIVE DigitsValue(_, _, _, _)
DigitsValue(s, i, j, acc) ==
    IF i >= j THEN acc
    ELSE IF acc * 10 + DigitVal(s[i]) > MaxNum THEN -1
    ELSE DigitsValue(s, i + 1, j, acc * 10 + DigitVal(s[i]))

\* the fraction 0.d(i)d(i+1)...d(j-1), read from its last digit; <<-1, 1>>
\* once a numerator or denominator passes MaxNum
RECURSIVE FractionValue(_, _, _, _)
FractionValue(s, i, j, acc) ==
    IF j <= i THEN acc
    ELSE LET v == Norm(DigitVal(s[j - 1]) * acc[2] + acc[1], acc[2] * 10, FALSE)
         IN  IF ~InRange(v) THEN <<-1, 1>>
             ELSE FractionValue(s, i, j - 1, v)

\* v * 10 ** e (up) or v / 10 ** e, <<-1, 1>> once it leaves the range
RECURSIVE Scale10(_, _, _)
Scale10(v, e, up) ==
    IF e = 0 \/ IsZero(v) THEN v
    ELSE LET w == IF up THEN Norm(v[1] * 10, v[2], FALSE)
                   ELSE Norm(v[1], v[2] * 10, FALSE)
         IN  IF ~InRange(w) THEN <<-1, 1>> ELSE Scale10(w, e - 1, up)

\* the sign applied to the magnitude v (<<-1, 1>>: past the range)
Signed(s, v) ==
    IF v[1] = -1 \/ ~InRange(v) THEN Fail("Beyond")
    ELSE Ok(IF At(s, 1) = "-" THEN Neg(v) ELSE v)

ScaledBy(s, b, mant, expo) ==
    IF expo = -1 THEN Fail("Beyond")
    ELSE Signed(s, Scale10(mant, expo, At(s, b + 1) # "-"))

\* the exponent's digits are s[expDigits .. expEnd-1]
ParseScaled(s, b, mant, expDigits, expEnd) ==
    IF expEnd = expDigits \/ expEnd # Len(s) + 1 THEN Fail("FloatError")
    ELSE IF mant[1] = -1 THEN Fail("Beyond")
    ELSE ScaledBy(s, b, mant, DigitsValue(s, expDigits, expEnd, 0))

\* the number body ended at b with magnitude mant
ParseExponent(s, b, mant, expDigits) ==
    IF At(s, b) \in {"e", "E"}
    THEN ParseScaled(s, b, mant, expDigits, SkipDigits(s, expDigits))
    ELSE IF b # Len(s) + 1 THEN Fail("FloatError")
    ELSE Signed(s, mant)

MantissaOf(whole, frac) ==
    IF whole = -1 \/ frac[1] = -1 THEN <<-1, 1>>
    ELSE RatAdd(FromInt(whole), frac)

\* the magnitude written by the body s[p .. b-1], integer part s[p .. intEnd-1]
Mantissa(s, p, b, intEnd) ==
    MantissaOf(DigitsValue(s, p, intEnd, 0),
               FractionValue(s, IF At(s, intEnd) = "." THEN intEnd + 1 ELSE intEnd,
                             b, PosZero))

ParseParts(s, p, b, intEnd) ==
    IF b = 0 THEN Fail("FloatError")
    ELSE ParseExponent(s, b, Mantissa(s, p, b, intEnd), SignEnd(s, b + 1))

ParseFrom(s, p) == ParseParts(s, p, NumberBodyEnd(s, p), SkipDigits(s, p))

\* the text s, stripped and without separators.  An infinity or a NaN is
\* no rational: "Beyond".
ParseStripped(s) ==
    IF IsInfOrNan(s) THEN Fail("Beyond") ELSE ParseFrom(s, SignEnd(s, 1))

\* Python's float(text): digit separators taken out, surrounding whitespace
\* ignored, then an optional sign, digits with an optional fraction or a
\* fraction alone, and an optional exponent; or an infinity or a NaN.
FloatParse(text) ==
    IF ~SeparatorsOk(text) THEN Fail("FloatError")
    ELSE ParseStripped(Strip(WithoutSeparators(text)))

\* ---------------------------------------------------------- str(float)
RECURSIVE IntDigits(_)
IntDigits(k) ==
    IF k < 10 THEN <<DigitChars[k + 1]>>
    ELSE Append(IntDigits(k \div 10), DigitChars[(k % 10) + 1])

\* the digits after the point of r / d for 0 <= r < d, d a power of two
RECURSIVE FracDigits(_, _)
FracDigits(r, d) ==
    IF r = 0 THEN <<>>
    ELSE <<DigitChars[((r * 10) \div d) + 1]>> \o FracDigits((r * 10) % d, d)

LeadingZeros(ds) == SkipChar(ds, 1, "0") - 1

\* Python's str(value) of a float (repr: the shortest text that reads back
\* as the same float).  For a float that is exactly k / 2**m with at most
\* 15 significant digits this is its exact decimal expansion: fixed point
\* from 1e-4 on, exponent form below.
SignText(v) == IF IsNeg(v) THEN <<"-">> ELSE <<>>

FixedText(v) ==
    LET a == Abs(v[1])
        d == Den(v)
        fd == FracDigits(a % d, d)
    IN  SignText(v) \o IntDigits(a \div d) \o <<".">>
            \o (IF fd = <<>> THEN <<"0">> ELSE fd)

ExponentText(v) ==
    LET fd == FracDigits(Abs(v[1]), Den(v))
        z == LeadingZeros(fd)
        m == Slice(fd, z + 1, Len(fd) + 1)
        e == z + 1
    IN  SignText(v) \o <<m[1]>>
            \o (IF Len(m) > 1 THEN <<".">> \o Tail(m) ELSE <<>>)
            \o <<"e", "-">>
            \o (IF e < 10 THEN <<"0">> ELSE <<>>) \o IntDigits(e)

SignificantDigits(v) ==
    LET a == Abs(v[1])
        d == Den(v)
        fd == FracDigits(a % d, d)
    IN  IF a \div d > 0 THEN Len(IntDigits(a \div d)) + Len(fd)
        ELSE Len(fd) - LeadingZeros(fd)

\* [kind |-> "ok", text |-> ...], or kind "Beyond" when the text is not the
\* exact expansion
Str(v) ==
    IF IsZero(v) THEN [kind |-> "ok", text |-> SignText(v) \o <<"0", ".", "0">>]
    ELSE IF ~IsPowerOfTwo(Den(v)) \/ SignificantDigits(v) > 15
    THEN [kind |-> "Beyond", text |-> <<>>]
    ELSE IF Abs(v[1]) * 10000 >= Den(v)
    THEN [kind |-> "ok", text |-> FixedText(v)]
    ELSE [kind |-> "ok", text |-> ExponentText(v)]

\* ---------------------------------------------------- LeftToRightEvaluator
\* self._operator_pattern matched at i: "|".join(map(re.escape, symbols())),
\* the first alternative that matches wins.  0 when none does.
OperatorPatternEnd(s, i) ==
    LET hits == {k \in 1..Len(symbols) : HasPrefixAt(s, i, symbols[k])}
    IN  IF hits = {} THEN 0
        ELSE i + Len(symbols[CHOOSE k \in hits : \A x \in hits : k <= x])

\* self._operand_pattern matched at i: \d+(?:\.\d+)?|\.\d+
OperandPatternEnd(s, i) ==
    IF IsDigit(At(s, i))
    THEN LET j == SkipDigits(s, i)
         IN  IF At(s, j) = "." /\ IsDigit(At(s, j + 1))
             THEN SkipDigits(s, j + 1) ELSE j
    ELSE IF At(s, i) = "." /\ IsDigit(At(s, i + 1))
    THEN SkipDigits(s, i + 1)
    ELSE 0

\* re.split(self._operator_pattern, expr) from position i, the current piece
\* having started at `start`
RECURSIVE SplitOnOperators(_, _, _)
SplitOnOperators(s, i, start) ==
    IF i > Len(s) THEN <<Slice(s, start, Len(s) + 1)>>
    ELSE LET e == OperatorPatternEnd(s, i)
         IN  IF e = 0 THEN SplitOnOperators(s, i + 1, start)
             ELSE <<Slice(s, start, i)>> \o SplitOnOperators(s, e, e)

\* re.split(self._operand_pattern, expr)
RECURSIVE SplitOnOperands(_, _, _)
SplitOnOperands(s, i, start) ==
    IF i > Len(s) THEN <<Slice(s, start, Len(s) + 1)>>
    ELSE LET e == OperandPatternEnd(s, i)
         IN  IF e = 0 THEN SplitOnOperands(s, i + 1, start)
             ELSE <<Slice(s, start, i)>> \o SplitOnOperands(s, e, e)

\* what one call of the evaluator gives: the outcome, the value, and the
\* number of OperatorRegistry.compute calls it made
Outcome(k, v, n) == [kind |-> k, val |-> v, calls |-> n]

\* the loop of evaluate from operand number i (1-based) on, once `result`
\* is the complex number z
RECURSIVE FoldComplexFrom(_, _, _, _, _)

\* result = self._operators.compute(...) has been evaluated to r
FoldComplexComputed(operands, operators, i, calls, r) ==
    IF r.kind \notin {"Complex", "ComplexBeyond"} THEN Outcome(r.kind, PosZero, calls + 1)
    ELSE FoldComplexFrom(operands, operators, i + 1, r, calls + 1)

\* float(operands[i]) has been evaluated to right
FoldComplexRight(operands, operators, i, z, calls, right) ==
    IF right.kind # "ok" THEN Outcome(right.kind, PosZero, calls)
    ELSE IF i > Len(operators) THEN Outcome("IndexError", PosZero, calls)
    ELSE FoldComplexComputed(operands, operators, i, calls,
                             computeComplex(z, right.val, operators[i]))

\* at the end of the loop the call returns the complex number: kind
\* "Complex" with the base it is the root of, "Beyond" for one the model
\* does not hold
FoldComplexFrom(operands, operators, i, z, calls) ==
    IF i > Len(operands)
    THEN (IF z.kind = "Complex" THEN Outcome("Complex", z.val, calls)
          ELSE Outcome("Beyond", PosZero, calls))
    ELSE FoldComplexRight(operands, operators, i, z, calls,
                          FloatParse(operands[i]))

\* the loop of evaluate from operand number i (1-based) on
RECURSIVE FoldFrom(_, _, _, _, _)

\* result = self._operators.compute(...) has been evaluated to r; the loop
\* goes on with it, a complex number included
FoldComputed(operands, operators, i, calls, r) ==
    IF r.kind \in {"Complex", "ComplexBeyond"}
    THEN FoldComplexFrom(operands, operators, i + 1, r, calls + 1)
    ELSE IF r.kind # "ok" THEN Outcome(r.kind, r.val, calls + 1)
    ELSE FoldFrom(operands, operators, i + 1, r.val, calls + 1)

\* float(operands[i]) has been evaluated to right
FoldRight(operands, operators, i, result, calls, right) ==
    IF right.kind # "ok" THEN Outcome(right.kind, PosZero, calls)
    ELSE IF i > Len(operators) THEN Outcome("IndexError", PosZero, calls)
    ELSE FoldComputed(operands, operators, i, calls,
                      compute(result, right.val, operators[i]))

FoldFrom(operands, operators, i, result, calls) ==
    IF i > Len(operands) THEN Outcome("ok", result, calls)
    ELSE FoldRight(operands, operators, i, result, calls,
                   FloatParse(operands[i]))

\* result = float(operands[0]) has been evaluated to first
FoldFirst(operands, operators, first) ==
    IF first.kind # "ok" THEN Outcome(first.kind, PosZero, 0)
    ELSE FoldFrom(operands, operators, 2, first.val, 0)

EvaluateSplit(operands, operators) ==
    FoldFirst(operands, operators, FloatParse(operands[1]))

\* LeftToRightEvaluator.evaluate
evaluate(expr) ==
    EvaluateSplit(SplitOnOperators(expr, 1, 1), SplitOnOperands(expr, 1, 1))

\* ------------------------------------------------------------ LtrCalculator
\* LtrCalculator._remove_spaces
remove_spaces(expression) == SelectSeq(expression, LAMBDA c : ~IsSpace(c))

IsParen(c) == c \in {"(", ")"}

\* first position at or after i that holds a parenthesis (Len + 1 if none)
RECURSIVE SkipNonParens(_, _)
SkipNonParens(s, i) ==
    IF i > Len(s) \/ IsParen(s[i]) THEN i ELSE SkipNonParens(s, i + 1)

\* \([^()]+\) matched at i: the position after the match, 0 when none
GroupEnd(s, i) ==
    LET j == SkipNonParens(s, i + 1)
    IN  IF At(s, i) = "(" /\ j > i + 1 /\ At(s, j) = ")" THEN j + 1 ELSE 0

\* a search that takes everything from the first "(" to the last ")"
search_widest(s) ==
    LET opens == {i \in 1..Len(s) : s[i] = "("}
        closes == {i \in 1..Len(s) : s[i] = ")"}
    IN  IF opens = {} \/ closes = {} THEN <<0, 0>>
        ELSE <<CHOOSE x \in opens : \A y \in opens : x <= y,
               (CHOOSE x \in closes : \A y \in closes : y <= x) + 1>>

\* re.search(r"\([^()]+\)", expression): <<start, end>> of the leftmost
\* match (end exclusive), <<0, 0>> when there is none
search(s) ==
    LET starts == {i \in 1..Len(s) : GroupEnd(s, i) # 0}
    IN  IF starts = {} THEN <<0, 0>>
        ELSE LET i == CHOOSE x \in starts : \A y \in starts : x <= y
             IN  <<i, GroupEnd(s, i)>>

\* a replacement that keeps the enclosing parentheses
replace_inside(expression, start, end, text) ==
    Slice(expression, 1, start + 1) \o text
        \o Slice(expression, end - 1, Len(expression) + 1)

\* LtrCalculator._replace, given the text of str(value)
replace(expression, start, end, text) ==
    Slice(expression, 1, start) \o text \o Slice(expression, end, Len(expression) + 1)

\* one pass of the body of the while loop on a matched group <<start, end>>:
\* the evaluator's outcome and, when it returned, the rewritten expression
ReduceText(expression, m, value, text) ==
    IF text.kind # "ok"
    THEN [kind |-> "Beyond", expr |-> expression, calls |-> value.calls]
    ELSE [kind |-> "ok", calls |-> value.calls,
          expr |-> replace(expression, m[1], m[2], text.text)]

\* a body that reports every failure of the evaluator as a syntax error
ReduceValueAsSyntaxError(expression, m, value) ==
    IF value.kind # "ok"
    THEN [kind |-> "SyntaxError", expr |-> expression, calls |-> value.calls]
    ELSE ReduceText(expression, m, value, Str(value.val))

ReduceValue(expression, m, value) ==
    IF value.kind = "Complex"
    THEN [kind |-> "ok", calls |-> value.calls,
          expr |-> replace(expression, m[1], m[2], ComplexStr(value.val))]
    ELSE IF value.kind # "ok"
    THEN [kind |-> value.kind, expr |-> expression, calls |-> value.calls]
    ELSE ReduceText(expression, m, value, Str(value.val))

ReduceGroup(expression, m) ==
    ReduceValue(expression, m, evaluate(Slice(expression, m[1] + 1, m[2] - 1)))

\* steps 4 and 5 of LtrCalculator.evaluate as one function: the while loop,
\* then the final flat evaluation.  iters counts the loop's iterations.
RECURSIVE ReduceLoop(_, _, _)

LoopReturn(expression, iters, calls, r) ==
    [kind |-> r.kind, val |-> r.val, iters |-> iters,
     calls |-> calls + r.calls, expr |-> expression]

LoopStep(expression, iters, calls, g) ==
    IF g.kind # "ok"
    THEN [kind |-> g.kind, val |-> PosZero, iters |-> iters + 1,
          calls |-> calls + g.calls, expr |-> expression]
    ELSE ReduceLoop(g.expr, iters + 1, calls + g.calls)

\* the loop's test found the match m (<<0, 0>>: none)
LoopOn(expression, iters, calls, m) ==
    IF m = <<0, 0>>
    THEN LoopReturn(expression, iters, calls, evaluate(expression))
    ELSE LoopStep(expression, iters, calls, ReduceGroup(expression, m))

ReduceLoop(expression, iters, calls) ==
    LoopOn(expression, iters, calls, search(expression))

Rejected(expression, v) ==
    [kind |-> v, val |-> PosZero, iters |-> 0, calls |-> 0, expr |-> expression]

\* the validator has answered v
AfterValidation(expression, v) ==
    IF v # "ok" THEN Rejected(expression, v)
    ELSE ReduceLoop(remove_spaces(expression), 0, 0)

\* LtrCalculator.evaluate as a function of its argument
LtrEvaluate(expression) ==
    AfterValidation(expression, check_arithmetic_expr(expression))

\* ------------------------------------------------------------------ state
VARIABLES
    input,          \* the argument of the call under way
    pairs,          \* the `pairs` argument of ParenthesesChecker.check
    expression,     \* LtrCalculator.evaluate: the local `expression`
    pc,             \* where the call stands
    outcome,        \* "none" while running, "ok" once a float is returned,
                    \* "Complex" once a complex number is, else the error
    result,         \* the float returned (PosZero while there is none; for
                    \* a complex number the base it is the square root of)
    evalCalls,      \* calls of LeftToRightEvaluator.evaluate so far
    computeCalls,   \* calls of OperatorRegistry.compute so far
    spaced,         \* the argument with whitespace inserted
    picked,         \* where the groups the loop has reduced started, in order
    spacedResult    \* what LtrCalculator.evaluate gives on `spaced`

vars == <<input, pairs, expression, pc, outcome, result, evalCalls,
          computeCalls, spaced, picked, spacedResult>>

\* ----------------------------------------------------- generated arguments
Text(c) == <<c>>

DigitTexts == {Text(DigitChars[k + 1]) : k \in 0..MaxDigit}

\* one literal of each further form the operand grammar accepts:
\* leading dot, trailing dot, exponent, signed
FormTexts == { <<".", "5">>, <<"2", ".">>, <<"1", "e", "0">>, <<"-", "1">> }

\* what a hole of a shape may be filled with; any other token stands for
\* itself
HoleTexts(tok) ==
    CASE tok = "D" -> DigitTexts
      [] tok = "A" -> DigitTexts \cup FormTexts
      [] tok = "O" -> Registered
      [] tok = "M" -> {Str1("-"), Str1("/")}
      [] OTHER -> {Text(tok)}

RECURSIVE Fills(_)
Fills(shape) ==
    IF shape = <<>> THEN {<<>>}
    ELSE LET rest == Fills(Tail(shape))
         IN  {h \o r : h \in HoleTexts(Head(shape)), r \in rest}

\* the shapes of the expressions handed to LtrCalculator.evaluate
Shapes ==
    { <<"A">>,
      <<"A", "O", "A">>,
      <<"D", "O", "D", "O", "D">>,
      <<"(", "D", "O", "D", ")", "O", "D">>,
      <<"D", "O", "(", "D", "O", "D", ")">>,
      <<"A", "M", "(", "A", ")">>,
      <<"(", "(", "D", "M", "D", ")", "O", "D", ")">>,
      <<"D", "O", "(", "D", "M", "(", "D", "M", "D", ")", ")">>,
      <<"(", "D", "M", "D", ")", "O", "(", "D", "M", "D", ")">>,
      <<"(", "(", "D", ")", ")">>,
      <<"(", "A", ")">>,
      <<"D", "-", "D", "*", "*", ".", "5">>,
      <<"(", "D", "-", "D", "*", "*", ".", "5", ")">>,
      <<"(", "D", "-", "D", "*", "*", ".", "5", ")", "M", "D">>,
      <<"D", "M", "(", "D", "-", "D", "*", "*", ".", "5", ")">>,
      <<"(", "D", "/", "D", ")", "-", "(", "D", "-", "D", "*", "*", ".", "5", ")">>,
      <<"D", "-", "D", "*", "*", ".", "5", "O", "D">>,
      <<"D", "-", "D", "*", "*", ".", "5", "M", "-", "D">>,
      <<"(", "D", "-", "D", "*", "*", ".", "5", "O", "D", ")">>,
      <<"(", "(", "D", "-", "D", "*", "*", ".", "5", "*", "D", ")", "M", "D", ")">>,
      <<"(", "D", "-", "D", "*", "*", ".", "5", "*", "D", ")", "-",
        "(", "D", "-", "D", "*", "*", ".", "5", ")">>,
      <<"D", " ", "O", " ", "D">>,
      <<"D", "\t", "O", "\n", "D">>,
      <<"D", "\\x1c", "M", "(", "D", "\\xa0", ")">>,
      <<"\\u0663", "O", "(", "\\U0001d7d9", ")">>,
      <<" ", "(", " ", "D", "M", "D", " ", ")", " ">>,
      <<"(", " ", "(", "D", ")", ")">>,
      <<"(", "(", "D", ")", " ", ")">>,
      <<"-", " ", "D", "M", "D">>,
      <<"D", "M", "D", " ", "D">>,
      <<"D", " ", "D">>,
      <<"(", "D", "M", "D">>,
      <<"D", "M", "D", ")">>,
      <<")", "D", "(">>,
      <<"(", ")">>,
      <<"D", "O">>,
      <<"O", "D">>,
      <<"D", "O", "O", "D">>,
      <<"D", "&", "D">>,
      <<"D", "(", "M", "D", ")">>,
      <<"(", "D", ")", "(", "D", ")">>,
      <<>> }

Inputs == UNION {Fills(sh) : sh \in Shapes}

\* ------------------------------------------- LtrCalculator.evaluate, by step
Init ==
    /\ input \in Inputs
    /\ pairs = DictPairs(RoundOnly)
    /\ expression = input
    /\ pc = "start"
    /\ outcome = "none"
    /\ result = PosZero
    /\ evalCalls = 0
    /\ computeCalls = 0
    /\ spaced = <<>>
    /\ picked = <<>>
    /\ spacedResult = "none"

Raise(kind) ==
    /\ pc' = "raised"
    /\ outcome' = kind
    /\ result' = PosZero

\* steps 1 to 3: check_arithmetic_expr, then _remove_spaces
Validated(v) ==
    IF v # "ok"
    THEN Raise(v) /\ UNCHANGED expression
    ELSE /\ expression' = remove_spaces(expression)
         /\ pc' = "reduce"
         /\ UNCHANGED <<outcome, result>>

\* normalisation without the validator's answer
ValidateSkipped ==
    /\ pc = "start"
    /\ Validated("ok")
    /\ UNCHANGED <<input, pairs, evalCalls, computeCalls, spaced, picked,
                   spacedResult>>

Validate ==
    /\ pc = "start"
    /\ Validated(check_arithmetic_expr(expression))
    /\ UNCHANGED <<input, pairs, evalCalls, computeCalls, spaced, picked,
                   spacedResult>>

\* step 4: one iteration of the while loop; g is what the body gave
Reduced(g) ==
    /\ evalCalls' = evalCalls + 1
    /\ computeCalls' = computeCalls + g.calls
    /\ IF g.kind = "ok"
       THEN /\ expression' = g.expr
            /\ UNCHANGED <<pc, outcome, result>>
       ELSE Raise(g.kind) /\ UNCHANGED expression

Reduce ==
    /\ pc = "reduce"
    /\ search(expression) # <<0, 0>>
    /\ Reduced(ReduceGroup(expression, search(expression)))
    /\ picked' = Append(picked, search(expression)[1])
    /\ UNCHANGED <<input, pairs, spaced, spacedResult>>

\* step 5: the loop has ended; r is what the final flat evaluation gave
Returned(r) ==
    /\ evalCalls' = evalCalls + 1
    /\ computeCalls' = computeCalls + r.calls
    /\ IF r.kind \in {"ok", "Complex"}
       THEN /\ pc' = "returned"
            /\ outcome' = r.kind
            /\ result' = r.val
       ELSE Raise(r.kind)

Final ==
    /\ pc = "reduce"
    /\ search(expression) = <<0, 0>>
    /\ Returned(evaluate(expression))
    /\ UNCHANGED <<input, pairs, expression, spaced, picked, spacedResult>>

Next == Validate \/ Reduce \/ Final

Spec == Init /\ [][Next]_vars

\* ------------------------------------------------------ the expression tree
\* The value the specification gives an accepted expression: operands are
\* the (optionally signed) literals of the operand grammar, a parenthesised
\* group stands for the left-to-right fold of its contents.
Accepted(e) == check_arithmetic_expr(e) = "ok"

ParenFree(e) == \A i \in 1..Len(e) : ~IsParen(e[i])

Node(k, v, p) == [kind |-> k, val |-> v, pos |-> p]

OperatorAt(s, i) ==
    IF Slice(s, i, i + 2) \in Registered /\ i + 1 <= Len(s)
    THEN Slice(s, i, i + 2) ELSE Slice(s, i, i + 1)

LiteralEnd(s, i) == ExponentEnd(s, NumberBodyEnd(s, SignEnd(s, i)))

RECURSIVE TreeTerm(_, _), TreeExpr(_, _), TreeRest(_, _, _)

TreeTerm(s, i) ==
    IF At(s, i) = "("
    THEN LET r == TreeExpr(s, i + 1)
         IN  IF r.kind # "ok" THEN r ELSE Node("ok", r.val, r.pos + 1)
    ELSE LET v == FloatParse(Slice(s, i, LiteralEnd(s, i)))
         IN  Node(v.kind, v.val, LiteralEnd(s, i))

TreeRest(s, pos, acc) ==
    IF pos > Len(s) \/ s[pos] = ")" THEN Node("ok", acc, pos)
    ELSE LET sym == OperatorAt(s, pos)
             t == TreeTerm(s, pos + Len(sym))
         IN  IF t.kind # "ok" THEN t
             ELSE LET r == compute(acc, t.val, sym)
                  IN  IF r.kind # "ok" THEN Node(r.kind, PosZero, pos)
                      ELSE TreeRest(s, t.pos, r.val)

TreeExpr(s, i) ==
    LET t == TreeTerm(s, i)
    IN  IF t.kind # "ok" THEN t ELSE TreeRest(s, t.pos, t.val)

TreeValue(e) == TreeExpr(remove_spaces(e), 1)

Ended == pc \in {"returned", "raised"}

\* every + and - of e stands between two operands (no signed literal), and
\* every literal is digits with an optional fraction
PlainLiterals(e) ==
    LET s == remove_spaces(e)
    IN  \A i \in 1..Len(s) :
          /\ s[i] \in {"+", "-"} => IsDigit(At(s, i - 1)) \/ At(s, i - 1) = ")"
          /\ s[i] \notin {"e", "E"}
          /\ s[i] = "." => IsDigit(At(s, i - 1)) /\ IsDigit(At(s, i + 1))

\* ------------------------------------------------------------------ claims
\* C1: for a parenthesis-free accepted expression the flat evaluator returns
\* the left-to-right fold compute(...compute(v0, v1, o1)..., vn, on) of its
\* operands (optionally signed literals of the operand grammar) and operators.
C1_FoldLaw ==
    (Ended /\ Accepted(input) /\ ParenFree(input)
       /\ TreeValue(input).kind = "ok" /\ outcome # "Beyond")
    => (outcome = "ok" /\ ValEq(result, TreeValue(input).val))

\* C2: for an accepted expression (here: one whose literals are unsigned
\* decimals, so that only the groups are at stake) LtrCalculator.evaluate
\* returns the value of the expression tree, every group standing for the
\* fold of its contents, negative and zero group values included.
C2_TreeValue ==
    (Ended /\ Accepted(input) /\ PlainLiterals(input)
       /\ TreeValue(input).kind = "ok" /\ outcome # "Beyond")
    => (outcome = "ok" /\ ValEq(result, TreeValue(input).val))

\* C3: when the bracket check or the grammar rejects the argument, evaluate
\* raises that error, returns no number, and neither the flat evaluator nor
\* compute has been called.
C3_ValidationFirst ==
    ~Accepted(input)
    => /\ evalCalls = 0 /\ computeCalls = 0
       /\ result = PosZero
       /\ pc \in {"start", "raised"}
       /\ pc = "start" => outcome = "none"
       /\ pc = "raised" => outcome = check_arithmetic_expr(input)
                           /\ outcome \in {"PairingError", "SyntaxError"}

C3_Witness ==
    /\ pc = "raised" /\ outcome = "SyntaxError"
    /\ Len(input) = 5 /\ input[4] = " " /\ IsDigit(input[3]) /\ IsDigit(input[5])

\* the call of the flat evaluator the next step of the loop makes
Pending ==
    IF search(expression) # <<0, 0>>
    THEN evaluate(Slice(expression, search(expression)[1] + 1,
                        search(expression)[2] - 1))
    ELSE evaluate(expression)

\* C4: when the evaluation of a group (at any depth) or of the final flat
\* expression divides by zero, evaluate raises ZeroDivisionError as it is,
\* returns no value, and takes no further step.
C4_ZeroDivisionAborts ==
    [][ /\ (pc = "reduce" /\ Pending.kind = "ZeroDivisionError")
           => (pc' = "raised" /\ outcome' = "ZeroDivisionError"
               /\ result' = PosZero /\ expression' = expression)
        /\ pc = "raised" => UNCHANGED vars ]_vars

C4_Witness ==
    /\ pc = "raised" /\ outcome = "ZeroDivisionError"
    /\ evalCalls = 2 /\ search(expression) # <<0, 0>>

\* C7: once the argument has passed the validator, no compute call fails
\* with the unknown-operator error, whatever literal forms it holds.
C7_NoUnknownOperator ==
    Accepted(input) => outcome # "UnknownOperator"

\* C8: symbols() lists every registered symbol, longer ones first; at every
\* position of an accepted expression the splitter and the operator grammar
\* take "**" and "%%" as one token; the operator grammar fully matches the
\* registered symbols and nothing else ("++" and "//" included).
OperatorChars == {"+", "-", "*", "/", "%"}

OperatorTexts ==
    {<<>>} \cup {<<a>> : a \in OperatorChars}
           \cup {<<a, b>> : a \in OperatorChars, b \in OperatorChars}

LongestFirst(syms) ==
    \A i \in 1..Len(syms) : \A j \in i..Len(syms) : Len(syms[i]) >= Len(syms[j])

OneToken(s, i) ==
    /\ OperatorPatternEnd(s, i) = i + 2
    /\ (i + 2) \in OperatorEnds(s, i)
    /\ OperandEnd(s, i + 2) # 0
    /\ OperandEnd(s, i + 1) = 0

C8_LongestMatch ==
    /\ Range(symbols) = Registered /\ Len(symbols) = Len(OperatorKeys)
    /\ LongestFirst(symbols)
    /\ \A t \in OperatorTexts : OperatorFullMatch(t) <=> t \in Registered
    /\ (Accepted(input) /\ pc # "start")
       => \A i \in 1..Len(expression) :
            (HasPrefixAt(expression, i, Str2("*", "*"))
               \/ HasPrefixAt(expression, i, Str2("%", "%")))
            => OneToken(expression, i)

C8_Witness ==
    /\ pc = "returned"
    /\ \E i \in 1..Len(input) : HasPrefixAt(input, i, Str2("*", "*"))
    /\ \E i \in 1..Len(expression) : HasPrefixAt(expression, i, Str2("%", "%"))

\* C10: for an accepted argument the loop ends after finitely many
\* iterations: every iteration that stays in the loop strictly lowers a
\* measure that is never negative (an iteration takes a group away, and
\* puts in its place a text without parentheses or the text of a complex
\* value in parentheses of its own, a group that no iteration reduces), so
\* the evaluator is called at most once per group and once more (there is
\* no cap), and no state of a call that has not ended is outside the loop.
\* When the loop ends without an error the expression holds no parenthesis.
ParenCount(s) == Len(SelectSeq(s, IsParen))

OpenCount(s) == Cardinality({i \in 1..Len(s) : s[i] = "("})

\* the texts of complex values that stand in parentheses: "...j)"
ComplexGroups(s) == {i \in 1..Len(s) : s[i] = "j" /\ At(s, i + 1) = ")"}

\* twice the groups, less the ones that are the text of a complex value
LoopMeasure(s) == 2 * OpenCount(s) - Cardinality(ComplexGroups(s))

C10_LoopTerminates ==
    /\ [][(pc = "reduce" /\ pc' = "reduce")
            => LoopMeasure(expression') < LoopMeasure(expression)]_vars
    /\ [](LoopMeasure(expression) >= 0)
    /\ [](Ended \/ pc \in {"start", "reduce"})
    /\ [](Accepted(input) => evalCalls <= (ParenCount(input) \div 2) + 1)
    /\ []((pc = "reduce" /\ search(expression) = <<0, 0>>) => ParenFree(expression))
    /\ [](pc = "returned" => ParenFree(expression))

C10_Witness ==
    /\ pc = "returned" /\ evalCalls = 3
    /\ ~ParenFree(input) /\ ParenFree(expression)

\* --------------------------------------------- OperatorRegistry.compute, alone
\* One call of compute(left, right, symbol) on its own: `input` holds the
\* three arguments, `outcome` and `result` what the call gave.
Wholes == {FromInt(n) : n \in -MaxNegative..MaxWhole}

Parts == {FromInt(n) : n \in -MaxNegative..MaxPart}

PercentSymbols == {Str2("%", "%"), Str1("%")}

InitOp ==
    /\ input \in [left : Wholes, right : Parts, symbol : PercentSymbols]
    /\ pairs = NonePairs
    /\ expression = <<>>
    /\ pc = "op_start"
    /\ outcome = "none"
    /\ result = PosZero
    /\ evalCalls = 0
    /\ computeCalls = 0
    /\ spaced = <<>>
    /\ picked = <<>>
    /\ spacedResult = "none"

Computed(c) ==
    /\ pc' = "op_done"
    /\ outcome' = c.kind
    /\ result' = c.val
    /\ computeCalls' = computeCalls + 1

Compute ==
    /\ pc = "op_start"
    /\ Computed(compute(input.left, input.right, input.symbol))
    /\ UNCHANGED <<input, pairs, expression, evalCalls, spaced, picked,
                   spacedResult>>

NextOp == Compute

SpecOp == InitOp /\ [][NextOp]_vars

\* what the modulo operator gives on the arguments of the call
ModuloOutcome == compute(input.left, input.right, Str1("%"))

SameAsModulo ==
    /\ outcome = ModuloOutcome.kind
    /\ outcome = "ok" => ValEq(result, ModuloOutcome.val)

PercentCall == pc = "op_done" /\ input.symbol = Str2("%", "%")

\* C9 (as the claim states it): the result of '%%' differs from the one of
\* '%' on the same operands, for every whole # 0.
C9_AlwaysDiffersFromModulo ==
    (PercentCall /\ ~IsZero(input.left)) => ~SameAsModulo

\* C9: compute(whole, part, '%%') is part * 100 / whole for every whole # 0
\* (the divisor is the left operand), it fails with division by zero exactly
\* when whole = 0 and never because part = 0, and its outcome differs from
\* the one of '%' on the same operands whenever 0 < |whole| <= 100.
C9_Percent ==
    PercentCall =>
        /\ (outcome = "ZeroDivisionError") <=> IsZero(input.left)
        /\ ~IsZero(input.left) =>
              /\ outcome = "ok"
              /\ ValEq(RatMul(result, input.left), RatMul(input.right, FromInt(100)))
              /\ (Abs(input.left[1]) <= 100 * Den(input.left)) => ~SameAsModulo

C9_Witness ==
    /\ PercentCall
    /\ input.left = FromInt(200) /\ input.right = FromInt(50)
    /\ outcome = "ok" /\ result = FromInt(25)

\* ------------------------------------------- ParenthesesChecker.check, alone
\* One call of check(expression, pairs) on its own: `input` is the string,
\* `pairs` the mapping argument, `outcome` what the call gave.
BracketChars == {"(", ")", "[", "]", "a"}

BracketTexts == UNION {[1..n -> BracketChars] : n \in 0..MaxLen}

RoundAndSquare == [c \in {"(", "["} |-> IF c = "(" THEN ")" ELSE "]"]

RoundToSquare == [c \in {"("} |-> "]"]

PairsArguments ==
    {NonePairs, DictPairs(NoPairs), DictPairs(RoundOnly),
     DictPairs(RoundAndSquare), DictPairs(RoundToSquare)}

InitParen ==
    /\ input \in BracketTexts
    /\ pairs \in PairsArguments
    /\ expression = input
    /\ pc = "paren_start"
    /\ outcome = "none"
    /\ result = PosZero
    /\ evalCalls = 0
    /\ computeCalls = 0
    /\ spaced = <<>>
    /\ picked = <<>>
    /\ spacedResult = "none"

Check ==
    /\ pc = "paren_start"
    /\ pc' = "paren_done"
    /\ outcome' = check(expression, pairs)
    /\ UNCHANGED <<input, pairs, expression, result, evalCalls, computeCalls,
                   spaced, picked, spacedResult>>

NextParen == Check

SpecParen == InitParen /\ [][NextParen]_vars

\* the mapping the caller named: the dict handed in, PAIRS when none was
MappingOf(p) == IF p.given THEN p.map ELSE PAIRS

\* the delimiters of the mapping m that occur in s, in order
Delimiters(s, m) ==
    LET IsDelimiter(c) == c \in (DOMAIN m) \cup Range(m)
    IN  SelectSeq(s, IsDelimiter)

\* d becomes empty by deleting, again and again, an opener that stands
\* right before its own closer
RECURSIVE Cancels(_, _)
Cancels(d, m) ==
    IF d = <<>> THEN TRUE
    ELSE LET hits == {i \in 1..(Len(d) - 1) :
                        d[i] \in DOMAIN m /\ d[i + 1] = m[d[i]]}
         IN  IF hits = {} THEN FALSE
             ELSE LET i == CHOOSE j \in hits : TRUE
                  IN  Cancels(SubSeq(d, 1, i - 1) \o SubSeq(d, i + 2, Len(d)), m)

WellNested(s, m) == Cancels(Delimiters(s, m), m)

\* C6: for every string and every opener-to-closer mapping, check succeeds
\* if and only if the delimiters of the mapping that occur in the string
\* are properly nested and all closed; otherwise it fails with the pairing
\* error; the other characters play no part.
C6_CheckIffWellNested ==
    pc = "paren_done" =>
        /\ outcome \in {"ok", "PairingError"}
        /\ (outcome = "ok") <=> WellNested(input, MappingOf(pairs))

\* ------------------------------- LtrCalculator.evaluate, with blanks inserted
\* Two calls of evaluate, one on `input` and one on `spaced`, which is
\* `input` with whitespace inserted between its tokens.
SpacingShapes ==
    { <<"A">>,
      <<"A", "O", "D">>,
      <<"(", "A", ")">>,
      <<"(", "(", "D", ")", ")">>,
      <<"(", "D", "M", "D", ")", "O", "D">>,
      <<"D", "M", "(", "D", "M", "D", ")">> }

SpacingInputs == UNION {Fills(sh) : sh \in SpacingShapes}

LiteralChars == Digits \cup {".", "e", "E"}

Largest(S) == CHOOSE x \in S : \A y \in S : y <= x

Smallest(S) == CHOOSE x \in S : \A y \in S : x <= y

\* index of the nearest character that is no blank, at or before k (0 when
\* there is none) and at or after k (Len(s) + 1 when there is none)
TokenBefore(s, k) == Largest({0} \cup {i \in 1..k : ~IsSpace(s[i])})

TokenAfter(s, k) ==
    Smallest({Len(s) + 1} \cup {i \in k..Len(s) : ~IsSpace(s[i])})

\* the + or - at index i is the sign of a literal, not an operator
IsSign(s, i) ==
    /\ At(s, i) \in {"+", "-"}
    /\ At(s, TokenBefore(s, i - 1)) \in {"", "(", "e", "E"} \cup OperatorChars

\* a blank put right after s[k] would fall inside a numeric literal or
\* inside a two-character operator
InsideToken(s, k) ==
    LET l == TokenBefore(s, k)
        a == At(s, l)
        b == At(s, TokenAfter(s, k + 1))
    IN  \/ a \in LiteralChars /\ b \in LiteralChars
        \/ IsSign(s, l)
        \/ a \in {"e", "E"} /\ b \in {"+", "-"}
        \/ a = b /\ a \in {"*", "%"}

\* the whitespace characters that get inserted
InsertedSpaces == {" ", "\t"}

InsertAt(s, k, c) == SubSeq(s, 1, k) \o <<c>> \o SubSeq(s, k + 1, Len(s))

InitSpacing ==
    /\ input \in SpacingInputs
    /\ pairs = DictPairs(RoundOnly)
    /\ expression = input
    /\ pc = "ws_start"
    /\ outcome = "none"
    /\ result = PosZero
    /\ evalCalls = 0
    /\ computeCalls = 0
    /\ spaced = input
    /\ picked = <<>>
    /\ spacedResult = "none"

InsertSpace ==
    /\ pc = "ws_start"
    /\ Len(spaced) < Len(input) + MaxSpaces
    /\ \E k \in 0..Len(spaced), c \in InsertedSpaces :
          /\ ~InsideToken(spaced, k)
          /\ spaced' = InsertAt(spaced, k, c)
    /\ UNCHANGED <<input, pairs, expression, pc, outcome, result, evalCalls,
                   computeCalls, picked, spacedResult>>

Evaluated(plain, blanks) ==
    /\ pc' = "ws_done"
    /\ outcome' = plain.kind
    /\ result' = plain.val
    /\ spacedResult' = [kind |-> blanks.kind, val |-> blanks.val]

EvaluateBoth ==
    /\ pc = "ws_start"
    /\ Evaluated(LtrEvaluate(input), LtrEvaluate(spaced))
    /\ UNCHANGED <<input, pairs, expression, evalCalls, computeCalls, spaced,
                   picked>>

NextSpacing == InsertSpace \/ EvaluateBoth

SpecSpacing == InitSpacing /\ [][NextSpacing]_vars

\* C5: an expression and the same expression with whitespace inserted around
\* its operators, operands and parentheses (never inside a numeric literal)
\* have the same outcome: both return the same value, or both fail.
C5_WhitespaceInvariance ==
    (pc = "ws_done" /\ outcome # "Beyond" /\ spacedResult.kind # "Beyond")
    => /\ (outcome = "ok") <=> (spacedResult.kind = "ok")
       /\ outcome = "ok" => ValEq(result, spacedResult.val)

\* ----------------------------------- the reduce loop, groups taken in any order
\* LtrCalculator.evaluate with the loop's choice left open: an iteration may
\* take any innermost group (any match of \([^()]+\)), not only the leftmost
\* one that re.search returns.
OrderShapes ==
    { <<"(", "D", "M", "D", ")", "O", "(", "D", ")">>,
      <<"(", "D", ")", "M", "(", "D", "M", "D", ")">>,
      <<"(", "D", ")", "M", "(", "D", ")", "M", "(", "D", ")">>,
      <<"(", "D", "M", "D", ")", "M", "(", "D", "M", "(", "D", ")", ")">>,
      <<"(", "D", "/", "D", ")", "-", "(", "D", "-", "D", "*", "*", ".", "5", ")">>,
      <<"(", "D", "-", "D", "*", "*", ".", "5", "*", "D", ")", "M",
        "(", "D", "/", "D", ")">>,
      <<"(", "(", "D", "M", "D", ")", "O", "D", ")">>,
      <<"(", "D", ")", " ", "O", " ", "(", "D", ")">>,
      <<"(", "D", ")", "(", "D", ")">> }

OrderInputs == UNION {Fills(sh) : sh \in OrderShapes}

\* every match of \([^()]+\) in s
Groups(s) == {<<i, GroupEnd(s, i)>> : i \in {k \in 1..Len(s) : GroupEnd(s, k) # 0}}

InitOrder ==
    /\ input \in OrderInputs
    /\ pairs = DictPairs(RoundOnly)
    /\ expression = input
    /\ pc = "start"
    /\ outcome = "none"
    /\ result = PosZero
    /\ evalCalls = 0
    /\ computeCalls = 0
    /\ spaced = <<>>
    /\ picked = <<>>
    /\ spacedResult = "none"

ReduceAny ==
    /\ pc = "reduce"
    /\ \E m \in Groups(expression) :
          /\ Reduced(ReduceGroup(expression, m))
          /\ picked' = Append(picked, m[1])
    /\ UNCHANGED <<input, pairs, spaced, spacedResult>>

NextOrder == Validate \/ ReduceAny \/ Final

SpecOrder == InitOrder /\ [][NextOrder]_vars

\* what the code, which takes the leftmost group each time, gives on the
\* argument of the call
LeftmostFirst == LtrEvaluate(input)

\* C11 (as the claim states it): whatever innermost group each iteration
\* takes, the call ends with the same final result as the leftmost-first
\* reduction of the code: the same value, or the same error.
C11_SameFinalResult ==
    (Ended /\ outcome # "Beyond" /\ LeftmostFirst.kind # "Beyond")
    => /\ LeftmostFirst.kind = outcome
       /\ ValEq(result, LeftmostFirst.val)

\* C11: whatever innermost group each iteration takes, a call that returns
\* returns what the leftmost-first reduction of the code returns, and a call
\* that fails is one the leftmost-first reduction does not return from
\* either; the error it fails with may differ with the order.
C11_Confluent ==
    /\ pc = "returned"
       => /\ LeftmostFirst.kind = outcome
          /\ ValEq(result, LeftmostFirst.val)
    /\ (pc = "raised" /\ outcome # "Beyond")
       => LeftmostFirst.kind \notin {"ok", "Complex"}

\* a call that returned a number after taking the rightmost of three groups
\* first
C11_Witness ==
    /\ pc = "returned" /\ outcome = "ok"
    /\ Len(picked) = 3
    /\ picked[1] > search(remove_spaces(input))[1]
    /\ picked[2] < picked[1]

\* -------------------------------------------- RegexPatterns.operand(), alone
\* One re.fullmatch of the operand pattern against `input`; `outcome` is
\* "match" or "no match".
OperandChars == {"1", ".", "e", "-", "(", ")", " ", "\t", "&"}

OperandTexts == UNION {[1..n -> OperandChars] : n \in 0..MaxOperandLen}

InitOperand ==
    /\ input \in OperandTexts
    /\ pairs = NonePairs
    /\ expression = input
    /\ pc = "operand_start"
    /\ outcome = "none"
    /\ result = PosZero
    /\ evalCalls = 0
    /\ computeCalls = 0
    /\ spaced = <<>>
    /\ picked = <<>>
    /\ spacedResult = "none"

MatchOperand ==
    /\ pc = "operand_start"
    /\ pc' = "operand_done"
    /\ outcome' = IF OperandFullMatch(input) THEN "match" ELSE "no match"
    /\ UNCHANGED <<input, pairs, expression, result, evalCalls, computeCalls,
                   spaced, picked, spacedResult>>

NextOperand == MatchOperand

SpecOperand == InitOperand /\ [][NextOperand]_vars

\* s without the characters of the set C it starts with / ends with
RECURSIVE DropLeading(_, _)
DropLeading(s, C) ==
    IF s # <<>> /\ Head(s) \in C THEN DropLeading(Tail(s), C) ELSE s

RECURSIVE DropTrailing(_, _)
DropTrailing(s, C) ==
    IF s # <<>> /\ s[Len(s)] \in C
    THEN DropTrailing(SubSeq(s, 1, Len(s) - 1), C) ELSE s

Trimmed(s) == DropTrailing(DropLeading(s, Spaces), Spaces)

AllDigits(s) == \A i \in 1..Len(s) : IsDigit(s[i])

\* integer, decimal, trailing-dot or leading-dot form
IsNumberBody(s) ==
    \E k \in 0..Len(s) :
        LET whole == SubSeq(s, 1, k)
            rest == SubSeq(s, k + 1, Len(s))
        IN  /\ AllDigits(whole)
            /\ \/ k > 0 /\ rest = <<>>
               \/ k > 0 /\ rest # <<>> /\ Head(rest) = "." /\ AllDigits(Tail(rest))
               \/ k = 0 /\ Len(rest) > 1 /\ Head(rest) = "." /\ AllDigits(Tail(rest))

\* nothing, or e / E, an optional sign and at least one digit
IsExponent(s) ==
    \/ s = <<>>
    \/ /\ Head(s) \in {"e", "E"}
       /\ LET t == Tail(s)
              u == IF t # <<>> /\ Head(t) \in {"+", "-"} THEN Tail(t) ELSE t
          IN  u # <<>> /\ AllDigits(u)

IsUnsignedLiteral(s) ==
    \E k \in 1..Len(s) :
        IsNumberBody(SubSeq(s, 1, k)) /\ IsExponent(SubSeq(s, k + 1, Len(s)))

Unsigned(s) == IF s # <<>> /\ Head(s) \in {"+", "-"} THEN Tail(s) ELSE s

\* one numeric literal: an optional sign, then the number
IsLiteral(s) == IsUnsignedLiteral(Unsigned(s))

\* one literal, blanks around it, at most one layer of parentheses around
\* that, blanks around the whole
IsSingleLayerOperand(s) ==
    LET t == Trimmed(s)
    IN  \/ IsLiteral(t)
        \/ /\ Len(t) >= 2 /\ Head(t) = "(" /\ t[Len(t)] = ")"
           /\ IsLiteral(Trimmed(SubSeq(t, 2, Len(t) - 1)))

OperandDone == pc = "operand_done"

\* C12: the operand pattern fully matches exactly the strings that are one
\* numeric literal with optional blanks around it and at most a single layer
\* of wrapping parentheses.
C12_SingleLayerOnly ==
    OperandDone => ((outcome = "match") <=> IsSingleLayerOperand(input))

\* ------------------------------------------------------ nesting depth (C13)
\* number of "(" minus number of ")" among the first i characters of s
DepthAt(s, i) ==
    Cardinality({k \in 1..i : s[k] = "("}) - Cardinality({k \in 1..i : s[k] = ")"})

\* the maximum bracket-nesting depth of s
Depth(s) ==
    LET depths == {DepthAt(s, i) : i \in 0..Len(s)}
    IN  CHOOSE d \in depths : \A e \in depths : e <= d

\* the opening parentheses of s that stand at the maximum depth
Deepest(s) == {i \in 1..Len(s) : s[i] = "(" /\ DepthAt(s, i) = Depth(s)}

LoopStepTaken == pc = "reduce" /\ pc' = "reduce"

\* C13 (as the claim states it): every iteration of the loop strictly
\* decreases the maximum nesting depth of the working expression.
C13_DepthStrictlyDecreases ==
    [][LoopStepTaken => Depth(expression') < Depth(expression)]_vars

\* the iteration put a text without parentheses in the place of the group
SplicedBare == ParenCount(expression') = ParenCount(expression) - 2

\* the iteration put a text in parentheses of its own in the place of the
\* group, the text of a complex value
SplicedComplexGroup ==
    /\ ParenCount(expression') = ParenCount(expression)
    /\ expression'[search(expression)[1]] = "("
    /\ ComplexGroups(expression') # {}

\* C13: an iteration of the loop never increases the maximum nesting depth
\* of the working expression.  It puts in the place of the group either a
\* text without parentheses or the text of a complex value in parentheses of
\* its own, and it decreases the depth exactly when the group it reduced was
\* the only one at the maximum depth and the text it put there has no
\* parentheses.  With sibling groups at the maximum depth the depth stays as
\* it is.
C13_DepthNeverGrows ==
    [][LoopStepTaken =>
         /\ Depth(expression') <= Depth(expression)
         /\ SplicedBare \/ SplicedComplexGroup
         /\ (Depth(expression') < Depth(expression))
            <=> /\ Deepest(expression) = {search(expression)[1]}
                /\ SplicedBare]_vars

\* one iteration has run on an expression with two sibling groups and the
\* depth is what it was
C13_Witness ==
    /\ pc = "reduce" /\ evalCalls = 1
    /\ Cardinality(Deepest(remove_spaces(input))) = 2
    /\ Depth(expression) = Depth(remove_spaces(input))
    /\ Depth(expression) = 1

\* ----------------------------------------------- validity under reduction
\* the text before the group at m and the text after it are in e2 what they
\* were in e1
SameAround(e1, e2, m) ==
    /\ Slice(e2, 1, m[1]) = Slice(e1, 1, m[1])
    /\ Slice(e2, Len(e2) + 1 - (Len(e1) + 1 - m[2]), Len(e2) + 1)
         = Slice(e1, m[2], Len(e1) + 1)

\* C14: for an accepted argument the working expression is accepted by
\* check_arithmetic_expr after the removal of whitespace and after every
\* iteration of the loop that raised no error, and an iteration leaves the
\* text before and after the group it replaced as it was.
C14_ValidityPreserved ==
    /\ []((Accepted(input) /\ pc = "reduce") => Accepted(expression))
    /\ [][LoopStepTaken
            => SameAround(expression, expression', search(expression))]_vars

====
